---- MODULE Spec2Model ----
(***************************************************************************)
(* Model of the SearchForm booking flow (src/src/components/SearchForm.js) *)
(* and of the scroll-lock manager it drives                                *)
(* (../utils/safariYetuScrollManager, described in spec.md 4.1 / 4.2).     *)
(*                                                                         *)
(* Every event handler of the component runs to completion inside the      *)
(* single UI event loop, so each handler is one action.  A handler is      *)
(* written as a composition of operators over a record `c` holding the     *)
(* component's mutable state; the action assigns the resulting record.     *)
(***************************************************************************)
EXTENDS Integers, Sequences, FiniteSets, TLC

VARIABLES
  formData,            \* useState formData {from, to, date, passengers}
  isLoading,           \* useState isLoading  (output signal `loading`)
  error,               \* useState error      (output signal `errorMessage`)
  currentBookingData,  \* useState currentBookingData: {} or {bookingData}
  isBookingDialogOpen, \* parent state behind setIsBookingDialogOpen (`dialogOpen`)
  scrollManagerRef,    \* useRef: Null or the id of a manager
  managers,            \* every ScrollLockManager created so far, by id
  sessions,            \* per valid submission: widget, promise and timer status
  safariplus,          \* whether window.safariplus is defined
  nodeEnv,             \* process.env.NODE_ENV of the build
  mounted,             \* whether the component is still mounted
  clock,               \* the date new Date() gives now
  minAttr              \* min attribute of the date input as last rendered

vars == <<formData, isLoading, error, currentBookingData, isBookingDialogOpen,
          scrollManagerRef, managers, sessions, safariplus, nodeEnv, mounted,
          clock, minAttr>>

----------------------------------------------------------------------------
(* Bounds and domains *)

MaxSessions == 2      \* valid submissions (managers created) per run
MaxPassengers == 1    \* passenger options the edits choose among
MaxMidnights == 1     \* midnights the clock passes while the page is open

Null == 0             \* scrollManagerRef.current === null
NoDate == 0           \* formData.date === ''
Today == 2            \* new Date().toISOString().split('T')[0] at page load

\* popularRoutes: the option values of the two city selects
CityOptions == {"mwanza", "dar-es-salaam", "kahama", "moshi"}

\* values of <select name=from> and <select name=to>: '' and the cities
FromValues == {""} \cup CityOptions
ToValues == {""} \cup CityOptions

\* values of the date input: '', the day before the page was loaded, that
\* day, the day after
Dates == NoDate..(Today + 1)

\* option values of <select name=passengers> (it has no empty option)
PassengerOption == <<"1", "2", "3", "4", "5", "6", "7", "8", "9", "10">>
PassengerOptions == {PassengerOption[n] : n \in 1..Len(PassengerOption)}

\* values of <select name=passengers> that the edits choose: its first
\* MaxPassengers options
PassengerValues == {PassengerOption[n] : n \in 1..MaxPassengers}

\* values of the from / to query parameters: absent or empty, a city, or
\* free text that is no option of the selects
UrlParamValues == {"", "Mwanza City"} \cup CityOptions

FieldValues(name) ==
  CASE name = "from" -> FromValues
    [] name = "to" -> ToValues
    [] name = "date" -> Dates
    [] name = "passengers" -> PassengerValues

FieldNames == {"from", "to", "date", "passengers"}

UnavailableMessage == "SafariYetu booking system is loading. Please try again in a moment."

\* messages of the errors openBookingDialog may reject with
RejectMessages == {"", "Dialog closed by user", "Error loading seat map"}

\* what the catch block may be handed: an Error object with a message, or a
\* non-object (undefined / null) whose .message cannot be read
ErrorReason(message) == [isObject |-> TRUE, message |-> message]
RejectReasons ==
  {ErrorReason(m) : m \in RejectMessages} \cup {[isObject |-> FALSE, message |-> ""]}

QuickRoutes ==
  { [from |-> "mwanza", to |-> "dar-es-salaam"],
    [from |-> "dar-es-salaam", to |-> "mwanza"],
    [from |-> "mwanza", to |-> "kahama"] }

----------------------------------------------------------------------------
(* Pure helpers *)

\* String.prototype.includes
includes(s, sub) ==
  \E i \in 1..(Len(s) - Len(sub) + 1) : SubSeq(s, i, i + Len(sub) - 1) = sub

DigitValue(ch) ==
  CASE ch = "0" -> 0 [] ch = "1" -> 1 [] ch = "2" -> 2 [] ch = "3" -> 3
    [] ch = "4" -> 4 [] ch = "5" -> 5 [] ch = "6" -> 6 [] ch = "7" -> 7
    [] ch = "8" -> 8 [] ch = "9" -> 9 [] OTHER -> -1

RECURSIVE parseDigits(_, _, _)
parseDigits(s, i, acc) ==
  IF i > Len(s) \/ DigitValue(SubSeq(s, i, i)) < 0 THEN acc
  ELSE parseDigits(s, i + 1, 10 * acc + DigitValue(SubSeq(s, i, i)))

\* parseInt on the strings the passengers field can hold; NaN is -1
parseInt(s) ==
  IF Len(s) = 0 \/ DigitValue(SubSeq(s, 1, 1)) < 0 THEN -1
  ELSE parseDigits(s, 1, 0)

----------------------------------------------------------------------------
(* ScrollLockManager (spec.md 4.1) *)

createInstance == [lock |-> "Unlocked", inert |-> FALSE, monitoring |-> FALSE]

disableScroll(m) == IF m.inert THEN m ELSE [m EXCEPT !.lock = "Locked"]

enableScroll(m) == IF m.inert THEN m ELSE [m EXCEPT !.lock = "Unlocked"]

cleanup(m) ==
  IF m.inert THEN m
  ELSE [enableScroll(m) EXCEPT !.monitoring = FALSE, !.inert = TRUE]

\* the manager's part of openBookingDialog: disable scroll, start the monitor
openBookingDialogManager(m) ==
  IF m.inert THEN m ELSE [disableScroll(m) EXCEPT !.monitoring = TRUE]

----------------------------------------------------------------------------
(* The component *)

Cur ==
  [ error |-> error,
    isLoading |-> isLoading,
    isBookingDialogOpen |-> isBookingDialogOpen,
    currentBookingData |-> currentBookingData,
    scrollManagerRef |-> scrollManagerRef,
    managers |-> managers,
    sessions |-> sessions ]

Assign(c) ==
  /\ error' = c.error
  /\ isLoading' = c.isLoading
  /\ isBookingDialogOpen' = c.isBookingDialogOpen
  /\ currentBookingData' = c.currentBookingData
  /\ scrollManagerRef' = c.scrollManagerRef
  /\ managers' = c.managers
  /\ sessions' = c.sessions

DefaultFormData == [from |-> "", to |-> "", date |-> NoDate, passengers |-> "1"]

\* URL pre-fill effect run once on mount
prefill(fromParam, toParam, now) ==
  IF fromParam # "" \/ toParam # ""
  THEN [DefaultFormData EXCEPT !.from = fromParam, !.to = toParam, !.date = now]
  ELSE DefaultFormData

\* validateForm with the date check moved ahead of the city checks
validateFormDateFirst(fd) ==
  IF fd.date = NoDate THEN "selectDateError"
  ELSE IF fd.from = "" THEN "selectDepartureError"
  ELSE IF fd.to = "" THEN "selectDestinationError"
  ELSE IF fd.from = fd.to THEN "differentCitiesError"
  ELSE IF fd.passengers = "" THEN "selectPassengersError"
  ELSE ""

\* validateForm without the origin / destination comparison
validateFormNoCityComparison(fd) ==
  IF fd.from = "" THEN "selectDepartureError"
  ELSE IF fd.to = "" THEN "selectDestinationError"
  ELSE IF fd.date = NoDate THEN "selectDateError"
  ELSE IF fd.passengers = "" THEN "selectPassengersError"
  ELSE ""

\* "" when the form is valid, else the key of the first failing check
validateForm(fd) ==
  IF fd.from = "" THEN "selectDepartureError"
  ELSE IF fd.to = "" THEN "selectDestinationError"
  ELSE IF fd.from = fd.to THEN "differentCitiesError"
  ELSE IF fd.date = NoDate THEN "selectDateError"
  ELSE IF fd.passengers = "" THEN "selectPassengersError"
  ELSE ""

makeBookingData(fd) ==
  [ origin |-> fd.from,
    destination |-> fd.to,
    departureDate |-> fd.date,
    passengersCount |-> parseInt(fd.passengers) ]

\* onClose without setIsLoading(false)
onCloseKeepsLoading(c) ==
  [c EXCEPT !.isBookingDialogOpen = FALSE,
            !.currentBookingData = {},
            !.error = ""]

\* bookingData.onClose
onClose(c) ==
  [c EXCEPT !.isBookingDialogOpen = FALSE,
            !.isLoading = FALSE,
            !.currentBookingData = {},
            !.error = ""]

\* handleSubmit without the stale-manager cleanup
cleanupStaleSkipped(c) == c

\* "Clean up any existing scroll manager"
cleanupStale(c) ==
  IF c.scrollManagerRef # Null
  THEN [c EXCEPT !.managers[c.scrollManagerRef] = cleanup(@)]
  ELSE c

\* "Create new scroll manager instance and set states"
prepareSession(c, fd) ==
  [c EXCEPT !.managers = Append(@, createInstance),
            !.scrollManagerRef = Len(c.managers) + 1,
            !.isLoading = TRUE,
            !.isBookingDialogOpen = TRUE,
            !.currentBookingData = {makeBookingData(fd)}]

NewSession(w, p, t) ==
  [widget |-> w, onCloseCalled |-> FALSE, promise |-> p, timer |-> t]

\* the error message the catch block shows
shownMessage(message) ==
  IF message # "" /\ includes(message, "loading") THEN message ELSE ""

\* the catch block without its "Clean up on error" part
catchBlockNoCleanup(c, reason) ==
  IF ~reason.isObject THEN c
  ELSE [c EXCEPT !.error = shownMessage(reason.message),
                 !.isLoading = FALSE,
                 !.isBookingDialogOpen = FALSE,
                 !.currentBookingData = {}]

\* the catch block without setIsBookingDialogOpen(false)
catchBlockKeepsDialogOpen(c, reason) ==
  IF ~reason.isObject THEN c
  ELSE LET c1 == [c EXCEPT !.error = shownMessage(reason.message)]
           c2 == IF c1.scrollManagerRef # Null
                 THEN [c1 EXCEPT !.managers[c1.scrollManagerRef] = cleanup(@),
                                 !.scrollManagerRef = Null]
                 ELSE c1
       IN [c2 EXCEPT !.isLoading = FALSE,
                     !.currentBookingData = {}]

\* the catch block of handleSubmit.  Reading error.message of a non-object
\* throws inside the block, so nothing after line 150 runs.
catchBlock(c, reason) ==
  IF ~reason.isObject THEN c
  ELSE LET c1 == [c EXCEPT !.error = shownMessage(reason.message)]
           c2 == IF c1.scrollManagerRef # Null
                 THEN [c1 EXCEPT !.managers[c1.scrollManagerRef] = cleanup(@),
                                 !.scrollManagerRef = Null]
                 ELSE c1
       IN [c2 EXCEPT !.isLoading = FALSE,
                     !.isBookingDialogOpen = FALSE,
                     !.currentBookingData = {}]

\* development mock: disable scroll and arm the 1500 ms timer
mockBranch(c) ==
  [c EXCEPT !.managers[c.scrollManagerRef] = disableScroll(@),
            !.sessions = Append(@, NewSession("none", "none", TRUE))]

\* production, widget missing: throw inside the try block
unavailableBranch(c) ==
  catchBlock([c EXCEPT !.sessions = Append(@, NewSession("none", "none", FALSE))],
             ErrorReason(UnavailableMessage))

\* await scrollManagerRef.current.openBookingDialog(bookingData), up to the
\* suspension: scroll disabled, widget invoked, monitor started
openBranch(c) ==
  [c EXCEPT !.managers[c.scrollManagerRef] = openBookingDialogManager(@),
            !.sessions = Append(@, NewSession("open", "pending", FALSE))]

\* handleSubmit cleaning the stale manager up before it validates
handleSubmitCleanupFirst(c, fd, avail, env) ==
  LET c0 == cleanupStale([c EXCEPT !.error = ""])
      v == validateForm(fd)
  IN IF v # "" THEN [c0 EXCEPT !.error = v]
     ELSE LET c1 == prepareSession(c0, fd)
          IN IF ~avail
             THEN IF env = "development" THEN mockBranch(c1)
                  ELSE unavailableBranch(c1)
             ELSE openBranch(c1)

\* handleSubmit creating the new manager before it cleans the reference up
handleSubmitCreateFirst(c, fd, avail, env) ==
  LET c0 == [c EXCEPT !.error = ""]
      v == validateForm(fd)
  IN IF v # "" THEN [c0 EXCEPT !.error = v]
     ELSE LET c1 == cleanupStale(prepareSession(c0, fd))
          IN IF ~avail
             THEN IF env = "development" THEN mockBranch(c1)
                  ELSE unavailableBranch(c1)
             ELSE openBranch(c1)

\* handleSubmit without the setError('') it starts with
handleSubmitKeepsError(c, fd, avail, env) ==
  LET v == validateForm(fd)
  IN IF v # "" THEN [c EXCEPT !.error = v]
     ELSE LET c1 == prepareSession(cleanupStale(c), fd)
          IN IF ~avail
             THEN IF env = "development" THEN mockBranch(c1)
                  ELSE unavailableBranch(c1)
             ELSE openBranch(c1)

\* handleSubmit up to its return or its suspension at the await
handleSubmit(c, fd, avail, env) ==
  LET c0 == [c EXCEPT !.error = ""]
      v == validateForm(fd)
  IN IF v # "" THEN [c0 EXCEPT !.error = v]
     ELSE LET c1 == prepareSession(cleanupStale(c0), fd)
          IN IF ~avail
             THEN IF env = "development" THEN mockBranch(c1)
                  ELSE unavailableBranch(c1)
             ELSE openBranch(c1)

\* the mock's timer callback without enableScroll() / cleanup()
mockTimeoutNoRelease(c) ==
  [c EXCEPT !.isLoading = FALSE,
            !.isBookingDialogOpen = FALSE,
            !.currentBookingData = {}]

\* the setTimeout callback of the development mock
mockTimeout(c) ==
  LET c1 == IF c.scrollManagerRef # Null
            THEN [c EXCEPT !.managers[c.scrollManagerRef] = cleanup(enableScroll(@))]
            ELSE c
  IN [c1 EXCEPT !.isLoading = FALSE,
                !.isBookingDialogOpen = FALSE,
                !.currentBookingData = {}]

\* the unmount effect emptying the slot without cleanup()
unmountCleanupDropsRef(c) == [c EXCEPT !.scrollManagerRef = Null]

\* the unmount effect
unmountCleanup(c) ==
  IF c.scrollManagerRef # Null
  THEN [c EXCEPT !.managers[c.scrollManagerRef] = cleanup(@),
                 !.scrollManagerRef = Null]
  ELSE c

\* presence monitor of manager s finding the widget gone: the same reset as
\* the callback, then release of the manager
monitorReset(c, s) ==
  [onClose(c) EXCEPT !.managers[s] = cleanup(@)]

----------------------------------------------------------------------------
(* Actions *)

Init ==
  /\ \E fromParam \in UrlParamValues, toParam \in UrlParamValues :
        formData = prefill(fromParam, toParam, Today)
  /\ isLoading = FALSE
  /\ error = ""
  /\ currentBookingData = {}
  /\ isBookingDialogOpen = FALSE
  /\ scrollManagerRef = Null
  /\ managers = <<>>
  /\ sessions = <<>>
  /\ safariplus \in BOOLEAN
  /\ nodeEnv \in {"production", "development"}
  /\ mounted = TRUE
  /\ clock = Today
  /\ minAttr = Today

SessionIds == 1..Len(sessions)

\* a state setter that stores a new value re-renders the mounted component,
\* which evaluates min={new Date()...} again
Render == minAttr' = IF mounted THEN clock ELSE minAttr

HandleInputChange ==
  /\ mounted
  /\ \E name \in FieldNames : \E value \in FieldValues(name) :
        formData' = [formData EXCEPT ![name] = value]
  /\ error' = ""
  /\ UNCHANGED <<isLoading, currentBookingData, isBookingDialogOpen,
                 scrollManagerRef, managers, sessions, safariplus, nodeEnv, mounted>>
  /\ Render
  /\ UNCHANGED clock

QuickRoute ==
  /\ mounted
  /\ ~isLoading
  /\ \E r \in QuickRoutes :
        formData' = [formData EXCEPT !.from = r.from, !.to = r.to, !.date = clock]
  /\ error' = ""
  /\ UNCHANGED <<isLoading, currentBookingData, isBookingDialogOpen,
                 scrollManagerRef, managers, sessions, safariplus, nodeEnv, mounted>>
  /\ Render
  /\ UNCHANGED clock

\* the option a controlled select shows for a value: the value when it is
\* an option, else the first option ('')
selectedOption(value) == IF value \in CityOptions THEN value ELSE ""

\* the browser's constraint validation of the form (no noValidate): the
\* submit event is delivered only when the required selects and the
\* required date input are filled and the date is not before min, the
\* attribute as the last render left it
constraintValidation(fd, min) ==
  /\ selectedOption(fd.from) # ""
  /\ selectedOption(fd.to) # ""
  /\ fd.date # NoDate
  /\ fd.date >= min

\* handleSubmit called with a submit event
HandleSubmitCall ==
  /\ mounted
  /\ validateForm(formData) = "" => Len(managers) < MaxSessions
  /\ Assign(handleSubmit(Cur, formData, safariplus, nodeEnv))
  /\ UNCHANGED <<formData, safariplus, nodeEnv, mounted>>
  /\ IF validateForm(formData) = "" \/ error' # error
     THEN Render
     ELSE UNCHANGED minAttr
  /\ UNCHANGED clock

\* a click on the submit button: enabled button, valid form, then the handler
Submit ==
  /\ ~isLoading
  /\ constraintValidation(formData, minAttr)
  /\ HandleSubmitCall

WidgetCloses(s) ==
  /\ sessions[s].widget = "open"
  /\ sessions' = [sessions EXCEPT ![s].widget = "closed"]
  /\ UNCHANGED <<formData, isLoading, error, currentBookingData,
                 isBookingDialogOpen, scrollManagerRef, managers, safariplus,
                 nodeEnv, mounted>>
  /\ UNCHANGED <<clock, minAttr>>

WidgetCallsOnClose(s) ==
  /\ sessions[s].widget = "closed"
  /\ ~sessions[s].onCloseCalled
  /\ Assign([onClose(Cur) EXCEPT !.sessions[s].onCloseCalled = TRUE])
  /\ UNCHANGED <<formData, safariplus, nodeEnv, mounted>>
  /\ Render
  /\ UNCHANGED clock

MonitorGuard(s) ==
  /\ managers[s].monitoring
  /\ sessions[s].widget = "closed"

MonitorDetects(s) ==
  /\ MonitorGuard(s)
  /\ Assign(monitorReset(Cur, s))
  /\ UNCHANGED <<formData, safariplus, nodeEnv, mounted>>
  /\ Render
  /\ UNCHANGED clock

OpenResolves(s) ==
  /\ sessions[s].promise = "pending"
  /\ sessions' = [sessions EXCEPT ![s].promise = "settled"]
  /\ UNCHANGED <<formData, isLoading, error, currentBookingData,
                 isBookingDialogOpen, scrollManagerRef, managers, safariplus,
                 nodeEnv, mounted>>
  /\ UNCHANGED <<clock, minAttr>>

OpenRejects(s) ==
  /\ sessions[s].promise = "pending"
  /\ \E reason \in RejectReasons :
        /\ Assign(catchBlock([Cur EXCEPT !.sessions[s].promise = "settled"], reason))
        /\ IF reason.isObject THEN Render ELSE UNCHANGED minAttr
  /\ UNCHANGED <<formData, safariplus, nodeEnv, mounted, clock>>

MockTimeout(s) ==
  /\ sessions[s].timer
  /\ Assign(mockTimeout([Cur EXCEPT !.sessions[s].timer = FALSE]))
  /\ UNCHANGED <<formData, safariplus, nodeEnv, mounted>>
  /\ Render
  /\ UNCHANGED clock

Unmount ==
  /\ mounted
  /\ mounted' = FALSE
  /\ Assign(unmountCleanup(Cur))
  /\ UNCHANGED <<formData, safariplus, nodeEnv>>
  /\ UNCHANGED <<clock, minAttr>>

SafariplusLoads ==
  /\ ~safariplus
  /\ safariplus' = TRUE
  /\ UNCHANGED <<formData, isLoading, error, currentBookingData,
                 isBookingDialogOpen, scrollManagerRef, managers, sessions,
                 nodeEnv, mounted>>
  /\ UNCHANGED <<clock, minAttr>>

\* the clock passes midnight while the page is open; nothing re-renders
MidnightPasses ==
  /\ mounted
  /\ clock < Today + MaxMidnights
  /\ clock' = clock + 1
  /\ UNCHANGED <<formData, isLoading, error, currentBookingData,
                 isBookingDialogOpen, scrollManagerRef, managers, sessions,
                 safariplus, nodeEnv, mounted, minAttr>>

\* every step the page takes while the clock stays within one day
NextWithinDay ==
  \/ HandleInputChange
  \/ QuickRoute
  \/ Submit
  \/ \E s \in SessionIds : WidgetCloses(s)
  \/ \E s \in SessionIds : WidgetCallsOnClose(s)
  \/ \E s \in SessionIds : MonitorDetects(s)
  \/ \E s \in SessionIds : OpenResolves(s)
  \/ \E s \in SessionIds : OpenRejects(s)
  \/ \E s \in SessionIds : MockTimeout(s)
  \/ Unmount
  \/ SafariplusLoads

Next ==
  \/ NextWithinDay
  \/ MidnightPasses

Spec == Init /\ [][Next]_vars

\* handleSubmit applied to every raw input, also those the form's controls
\* and constraint validation keep from it
RawInputs ==
  [from : UrlParamValues, to : UrlParamValues, date : Dates,
   passengers : {""} \cup PassengerOptions]

HandlerInit ==
  /\ formData \in RawInputs
  /\ isLoading = FALSE
  /\ error = ""
  /\ currentBookingData = {}
  /\ isBookingDialogOpen = FALSE
  /\ scrollManagerRef = Null
  /\ managers = <<>>
  /\ sessions = <<>>
  /\ safariplus \in BOOLEAN
  /\ nodeEnv \in {"production", "development"}
  /\ mounted = TRUE
  /\ clock = Today
  /\ minAttr = Today

HandlerSpec == HandlerInit /\ [][HandleSubmitCall]_vars

----------------------------------------------------------------------------
(* Properties *)

ManagerIds == 1..Len(managers)

LockedManagers == {i \in ManagerIds : managers[i].lock = "Locked"}

ValidationMessages ==
  {"selectDepartureError", "selectDestinationError", "differentCitiesError",
   "selectDateError", "selectPassengersError"}

\* the five checks of the validation, stated on the raw input
OriginPresent(fd) == fd.from # ""
DestinationPresent(fd) == fd.to # ""
CitiesDiffer(fd) == fd.from # fd.to
DatePresent(fd) == fd.date # NoDate
PassengersPresent(fd) == fd.passengers # ""

AllChecksPass(fd) ==
  /\ OriginPresent(fd) /\ DestinationPresent(fd) /\ CitiesDiffer(fd)
  /\ DatePresent(fd) /\ PassengersPresent(fd)

\* the session state reset by a closure: loading, dialogOpen, session data
SessionReset ==
  /\ isLoading = FALSE
  /\ isBookingDialogOpen = FALSE
  /\ currentBookingData = {}

\* C1: whenever the session has resolved (loading = false and dialogOpen =
\* false), no ScrollLockManager is in the Locked state.
C1_NoLockAfterResolution ==
  (~isLoading /\ ~isBookingDialogOpen) => LockedManagers = {}

\* C2: at most one ScrollLockManager instance is Locked at any time.
C2_AtMostOneLocked == Cardinality(LockedManagers) <= 1

\* C2 witness: a second session holds the lock after the first session's
\* manager, left Locked by its callback, was cleaned up by the second submit.
C2_Witness ==
  /\ Len(managers) >= 2
  /\ managers[2].lock = "Locked"
  /\ managers[1].inert
  /\ sessions[1].onCloseCalled

\* C3: once onClose has fired for a session, a later detection by that
\* session's presence monitor changes nothing: loading, dialogOpen,
\* errorMessage, session data and lock state all stay as they are.
C3_MonitorAfterCallbackIsNoop ==
  [][\A s \in SessionIds :
        (sessions[s].onCloseCalled /\ MonitorDetects(s)) =>
           UNCHANGED <<isLoading, isBookingDialogOpen, error,
                       currentBookingData, managers>>]_vars

\* C4: when onClose has not fired and the presence monitor detects that the
\* widget vanished, the step ends with loading = false, dialogOpen = false,
\* session data cleared, errorMessage empty and the lock Unlocked, and the
\* monitor of that session cannot detect again (the reset happens once).
C4_MonitorResetsOnce ==
  [][\A s \in SessionIds :
        (~sessions[s].onCloseCalled /\ MonitorDetects(s)) =>
           /\ SessionReset'
           /\ error' = ""
           /\ managers'[s].lock = "Unlocked"
           /\ managers'[s].inert
           /\ LockedManagers' = {}
           /\ ~MonitorGuard(s)']_vars

\* C4 witness: the open session was reset by its monitor, no callback fired.
C4_Witness ==
  \E s \in SessionIds :
    /\ mounted
    /\ scrollManagerRef = s
    /\ sessions[s].widget = "closed"
    /\ ~sessions[s].onCloseCalled
    /\ managers[s].inert
    /\ SessionReset

\* C5: in a production build, a valid submit with the widget missing sets
\* loading and dialogOpen to true and then back to false, ends with the
\* widget-unavailable message shown, the new manager cleaned up, the scroll
\* lock Unlocked and the widget not invoked.
C5_UnavailableRollsBack ==
  [][(Submit /\ AllChecksPass(formData) /\ ~safariplus /\ nodeEnv # "development") =>
       LET prepared == prepareSession(cleanupStale([Cur EXCEPT !.error = ""]), formData)
           new == Len(managers) + 1
       IN /\ prepared.isLoading /\ prepared.isBookingDialogOpen
          /\ isLoading' = FALSE /\ isBookingDialogOpen' = FALSE
          /\ error' = UnavailableMessage /\ error' # ""
          /\ Len(managers') = new
          /\ managers'[new].inert
          /\ LockedManagers' = {}
          /\ sessions'[new].widget = "none"
          /\ sessions'[new].promise = "none"]_vars

\* C5 witness: a production submit has just failed with the widget missing.
C5_Witness ==
  /\ nodeEnv = "production"
  /\ error = UnavailableMessage
  /\ ~isLoading /\ ~isBookingDialogOpen
  /\ Len(managers) >= 1
  /\ managers[Len(managers)].inert
  /\ sessions[Len(sessions)].widget = "none"

\* C6: submit reports the message of the first failing check in the order
\* origin, destination, origin # destination, date, passengers, and no
\* validation message when all five checks pass.
C6_FirstFailureWins ==
  [][HandleSubmitCall =>
       LET fd == formData
       IN /\ ~OriginPresent(fd) => error' = "selectDepartureError"
          /\ (OriginPresent(fd) /\ ~DestinationPresent(fd)) =>
                error' = "selectDestinationError"
          /\ (OriginPresent(fd) /\ DestinationPresent(fd) /\ ~CitiesDiffer(fd)) =>
                error' = "differentCitiesError"
          /\ (OriginPresent(fd) /\ DestinationPresent(fd) /\ CitiesDiffer(fd)
                /\ ~DatePresent(fd)) => error' = "selectDateError"
          /\ (OriginPresent(fd) /\ DestinationPresent(fd) /\ CitiesDiffer(fd)
                /\ DatePresent(fd) /\ ~PassengersPresent(fd)) =>
                error' = "selectPassengersError"
          /\ AllChecksPass(fd) => error' \notin ValidationMessages]_vars

\* C6 witness: equal cities were reported although date and passenger count
\* were missing too.
C6_Witness ==
  /\ error = "differentCitiesError"
  /\ formData.date = NoDate
  /\ formData.passengers = ""

\* C7: a submit that fails validation changes only errorMessage: loading,
\* dialogOpen, the manager slot, every manager, the session data and the
\* widget invocations stay as they are.
C7_InvalidSubmitHasNoSideEffects ==
  [][(Submit /\ ~AllChecksPass(formData)) =>
       /\ UNCHANGED <<isLoading, isBookingDialogOpen, scrollManagerRef,
                      managers, sessions, currentBookingData>>
       /\ error' \in ValidationMessages]_vars

\* C7 witness: a validation error is shown while the slot still holds a
\* Locked manager of an earlier session.
C7_Witness ==
  /\ error \in ValidationMessages
  /\ scrollManagerRef # Null
  /\ managers[scrollManagerRef].lock = "Locked"

\* C8: every rejection of the widget invocation, whatever its message,
\* resets the session, cleans the manager up and leaves errorMessage empty.
C8_OtherFailuresAreSilent ==
  [][(\E s \in SessionIds : OpenRejects(s)) =>
       /\ SessionReset'
       /\ scrollManagerRef' = Null
       /\ LockedManagers' = {}
       /\ error' = ""]_vars

\* C9: a valid submit that finds a manager in the slot cleans that manager
\* up before the new one is created (the cleanup hits the earlier manager,
\* never the new one, which is live whenever the widget or the mock is
\* opened), and leaves the earlier session's widget as it was.
C9_StaleCleanupBeforeCreate ==
  [][(Submit /\ AllChecksPass(formData) /\ scrollManagerRef # Null) =>
       LET old == scrollManagerRef
           cleaned == cleanupStale([Cur EXCEPT !.error = ""])
       IN /\ cleaned.managers[old].inert
          /\ Len(cleaned.managers) = Len(managers)
          /\ managers'[old].inert
          /\ managers'[old].lock = "Unlocked"
          /\ Len(managers') = Len(managers) + 1
          /\ (safariplus \/ nodeEnv = "development") =>
                /\ scrollManagerRef' = Len(managers) + 1
                /\ ~managers'[Len(managers) + 1].inert
          /\ scrollManagerRef' # old
          /\ sessions'[old] = sessions[old]]_vars

\* C9 witness: a second session is open in the slot and the first session's
\* manager is inert although its invocation is still pending.
C9_Witness ==
  /\ Len(managers) >= 2
  /\ scrollManagerRef = 2
  /\ isLoading
  /\ managers[1].inert
  /\ managers[1].lock = "Unlocked"
  /\ sessions[1].promise = "pending"
  /\ sessions[1].widget = "closed"

\* C10: the step in which a session's onClose callback fires leaves that
\* session's lock manager disposed (inert).
C10_CallbackReleasesManager ==
  [][\A s \in SessionIds : WidgetCallsOnClose(s) => managers'[s].inert]_vars

\* C11: an onClose callback of an earlier session that fires while a newer
\* session is open changes nothing of the newer session: loading,
\* dialogOpen, errorMessage, session data and lock state stay as they are.
C11_LateCallbackIsNoop ==
  [][\A s \in SessionIds :
        (/\ WidgetCallsOnClose(s)
         /\ s # Len(sessions)
         /\ scrollManagerRef = Len(sessions)
         /\ isLoading) =>
           UNCHANGED <<isLoading, isBookingDialogOpen, error,
                       currentBookingData, managers>>]_vars

\* C14: every submit that invokes the widget hands it a request whose origin
\* and destination are non-empty and different.
C14_WidgetGetsValidatedRequest ==
  [][(/\ Submit
      /\ Len(sessions') = Len(sessions) + 1
      /\ sessions'[Len(sessions')].widget = "open") =>
        /\ currentBookingData' # {}
        /\ \A bd \in currentBookingData' :
              /\ bd.origin # ""
              /\ bd.destination # ""
              /\ bd.origin # bd.destination]_vars

\* C14 witness: the widget is open on a request built from the form.
C14_Witness ==
  /\ isLoading
  /\ sessions # <<>>
  /\ sessions[Len(sessions)].widget = "open"
  /\ currentBookingData = {makeBookingData(formData)}
  /\ formData.to = "kahama"

\* C15: when a valid submit reaches the widget availability check, the new
\* manager is already Locked.
C15_LockedBeforeAvailabilityCheck ==
  [][(Submit /\ AllChecksPass(formData)) =>
       LET prepared == prepareSession(cleanupStale([Cur EXCEPT !.error = ""]), formData)
       IN prepared.managers[prepared.scrollManagerRef].lock = "Locked"]_vars

\* C16: every request handed to the widget has a departureDate on or after
\* today's date, and a submit of a form whose date is before today starts no
\* session and invokes no widget.
C16_DepartureNotBeforeToday ==
  [][Submit =>
       /\ (/\ Len(sessions') = Len(sessions) + 1
           /\ sessions'[Len(sessions')].widget = "open") =>
             \A bd \in currentBookingData' : bd.departureDate >= clock
       /\ formData.date < clock => sessions' = sessions]_vars

\* C17: between event handlers loading equals dialogOpen.
C17_LoadingEqualsDialogOpen == isLoading = isBookingDialogOpen

\* C17 witness: a second session is open (both signals true) after the
\* first one was resolved by its error path.
C17_Witness ==
  /\ Len(sessions) >= 2
  /\ sessions[1].promise = "settled"
  /\ sessions[2].widget = "open"
  /\ isLoading /\ isBookingDialogOpen

\* C18: a non-empty errorMessage is never shown while loading is true.
C18_NoErrorWhileLoading == error # "" => ~isLoading

\* C18 witness: an error set after loading had become true is visible, with
\* loading false.
C18_Witness ==
  /\ error # ""
  /\ error \notin ValidationMessages
  /\ sessions # <<>>
  /\ sessions[1].promise = "settled"
  /\ ~isLoading

\* C19: after unmount the slot is empty and no manager is Locked, whatever
\* callback, monitor detection or widget failure arrives afterwards.
C19_UnlockedAfterUnmount ==
  ~mounted => (scrollManagerRef = Null /\ LockedManagers = {})

\* C19 witness: the form was unmounted in the middle of an open session
\* (widget open, invocation pending) and that session's manager is released.
C19_Witness ==
  \E s \in SessionIds :
    /\ ~mounted
    /\ isLoading
    /\ sessions[s].widget = "open"
    /\ sessions[s].promise = "pending"
    /\ managers[s].inert
    /\ managers[s].lock = "Unlocked"

\* Scheduling the liveness claim relies on: the user eventually closes an
\* open widget, the manager's presence monitor keeps polling, and the
\* development mock's timer fires.
Fairness ==
  \A s \in 1..MaxSessions :
    /\ WF_vars(s \in SessionIds /\ WidgetCloses(s))
    /\ WF_vars(s \in SessionIds /\ MonitorDetects(s))
    /\ WF_vars(s \in SessionIds /\ MockTimeout(s))

\* the page under fair scheduling, the clock staying within one day
FairSpec == Init /\ [][NextWithinDay]_vars /\ Fairness

\* the page under fair scheduling, midnights included
FairSpecMidnight == Spec /\ Fairness

\* C12: whenever a manager's scroll lock is Locked it is eventually
\* Unlocked again, even when the onClose callback never fires.
C12_LockedLeadsToUnlocked ==
  \A i \in 1..MaxSessions :
    (i \in ManagerIds /\ managers[i].lock = "Locked")
      ~> (i \in ManagerIds /\ managers[i].lock = "Unlocked")

\* C12 witness: a manager that was Locked for an open widget has been
\* released by its monitor although the widget never called onClose.
C12_Witness ==
  \E s \in SessionIds :
    /\ sessions[s].widget = "closed"
    /\ ~sessions[s].onCloseCalled
    /\ sessions[s].promise = "pending"
    /\ managers[s].inert
    /\ managers[s].lock = "Unlocked"
    /\ scrollManagerRef = s

====
